---- MODULE Spec2Model ----
(***************************************************************************)
(* Model of the Cobalt LRU cache (mod.ts): a Map from key to CobaltEntry   *)
(* plus a doubly linked list of CobaltEntry objects from head (MRU) to     *)
(* tail (LRU).  Entries are heap objects addressed by a node id; the list  *)
(* links and the Map hold node ids.                                        *)
(***************************************************************************)
EXTENDS FiniteSets, Integers, Sequences, TLC

\* ---------------------------------------------------------------- bounds
MaxNodes == 4
MaxList == 2
MaxTime == 2
MaxLog == 5

Keys == {"a", "b", "c"}
SomeKeys == {"a", "b"}
Values == {"1", "2"}

\* ------------------------------------------------------------- constants
DefaultCapacity == 1000

Null == 0
Absent == "null"
NoKey == ""
NodeIds == 1..MaxNodes

\* An optional constructor field is <<>> when missing and <<x>> when given.
Undef == <<>>
Given(x) == <<x>>

\* JavaScript `a || b` on an optional number: undefined and 0 are falsy.
OrNum(opt, dflt) == IF opt = Undef \/ opt[1] = 0 THEN dflt ELSE opt[1]
\* JavaScript `a || false` on an optional boolean.
OrBool(opt) == IF opt = Undef THEN FALSE ELSE opt[1]

\* ------------------------------------------------------------------ state
VARIABLES nodes, cache, head, tail, capacity, allowStale, maxAge, now,
          options, last, written, expired, log

vars == <<nodes, cache, head, tail, capacity, allowStale, maxAge, now,
          options, last, written, expired, log>>

\* ------------------------------------------------------------ CobaltEntry
BlankEntry == [key |-> NoKey, value |-> Absent, next |-> Null, prev |-> Null,
               date |-> 0, maxAge |-> 0]

\* new CobaltEntry({key, value, next, maxAge}) constructed at time t
CobaltEntry(k, v, nxt, age, t) ==
    [key |-> k, value |-> v, next |-> nxt, prev |-> Null,
     date |-> t, maxAge |-> age]

\* stale with the comparison made inclusive
staleAtMaxAge(e, t) == IF e.maxAge = 0 THEN FALSE ELSE t - e.date >= e.maxAge

\* get stale()
stale(e, t) == IF e.maxAge = 0 THEN FALSE ELSE t - e.date > e.maxAge

\* ------------------------------------------------------------------ heap
\* A cache value is the record of the four mutable parts of a Cobalt.
Cache(ns, c, h, t) == [nodes |-> ns, cache |-> c, head |-> h, tail |-> t]

Self == Cache(nodes, cache, head, tail)

Roots(S) == ({S.head, S.tail} \cup {S.cache[k] : k \in Keys}) \ {Null}

RECURSIVE Closure(_, _, _)
Closure(S, seen, fuel) ==
    LET more == ({S.nodes[n].next : n \in seen} \cup
                 {S.nodes[n].prev : n \in seen}) \ ({Null} \cup seen)
    IN IF more = {} \/ fuel = 0 THEN seen
       ELSE Closure(S, seen \cup more, fuel - 1)

\* The entries the program can still reach.
Live(S) == Closure(S, Roots(S), MaxNodes)

\* The entries a walk from the head along next meets, each once, in order.
RECURSIVE Chain(_, _, _)
Chain(S, currentNode, seen) ==
    IF currentNode = Null \/ currentNode \in seen THEN <<>>
    ELSE <<currentNode>> \o
         Chain(S, S.nodes[currentNode].next, seen \cup {currentNode})

RECURSIVE Ascending(_)
Ascending(set) ==
    IF set = {} THEN <<>>
    ELSE LET m == CHOOSE n \in set : \A o \in set : n <= o
         IN <<m>> \o Ascending(set \ {m})

\* Object addresses cannot be observed, and an entry no reference leads to
\* is reclaimed by the garbage collector.  Normalize keeps the live entries
\* and gives them the addresses 1, 2, ... in the order of the list from
\* the head, then any other live entry.
Normalize(S) ==
    LET live  == Live(S)
        chain == Chain(S, S.head, {})
        order == chain \o Ascending(live \ {chain[i] : i \in 1..Len(chain)})
        to == [n \in NodeIds \cup {Null} |->
                 IF n \in live
                 THEN CHOOSE i \in 1..Len(order) : order[i] = n
                 ELSE Null]
    IN Cache([i \in NodeIds |->
                IF i <= Len(order)
                THEN [S.nodes[order[i]] EXCEPT !.next = to[@], !.prev = to[@]]
                ELSE BlankEntry],
             [k \in Keys |-> to[S.cache[k]]], to[S.head], to[S.tail])

HasRoom(S) == Live(S) # NodeIds

\* Address of the next object the allocator hands out.
Alloc(S) ==
    LET free == NodeIds \ Live(S)
    IN CHOOSE n \in free : \A m \in free : n <= m

\* get size()
size(S) == Cardinality({k \in Keys : S.cache[k] # Null})

\* ---------------------------------------------------------------- remove
\* remove that unlinks the entry and leaves its key in the index
removeKeepingIndex(S, key) ==
    LET currentNode == S.cache[key] IN
    IF currentNode = Null THEN S
    ELSE
      LET p  == S.nodes[currentNode].prev
          n1 == IF p # Null
                THEN [S.nodes EXCEPT ![p].next = S.nodes[currentNode].next]
                ELSE S.nodes
          h1 == IF p # Null THEN S.head ELSE S.nodes[currentNode].next
          nx == n1[currentNode].next
          n2 == IF nx # Null
                THEN [n1 EXCEPT ![nx].prev = n1[currentNode].prev]
                ELSE n1
          t1 == IF nx # Null THEN S.tail ELSE n1[currentNode].prev
      IN Cache(n2, S.cache, h1, t1)

\* remove that repairs the next links and the head, not the prev links
\* and the tail
removeForward(S, key) ==
    LET currentNode == S.cache[key] IN
    IF currentNode = Null THEN S
    ELSE
      LET p  == S.nodes[currentNode].prev
          n1 == IF p # Null
                THEN [S.nodes EXCEPT ![p].next = S.nodes[currentNode].next]
                ELSE S.nodes
          h1 == IF p # Null THEN S.head ELSE S.nodes[currentNode].next
      IN Cache(n1, [S.cache EXCEPT ![key] = Null], h1, S.tail)

remove(S, key) ==
    LET currentNode == S.cache[key] IN
    IF currentNode = Null THEN S
    ELSE
      LET p  == S.nodes[currentNode].prev
          n1 == IF p # Null
                THEN [S.nodes EXCEPT ![p].next = S.nodes[currentNode].next]
                ELSE S.nodes
          h1 == IF p # Null THEN S.head ELSE S.nodes[currentNode].next
          nx == n1[currentNode].next
          n2 == IF nx # Null
                THEN [n1 EXCEPT ![nx].prev = n1[currentNode].prev]
                ELSE n1
          t1 == IF nx # Null THEN S.tail ELSE n1[currentNode].prev
      IN Cache(n2, [S.cache EXCEPT ![key] = Null], h1, t1)

\* ------------------------------------------------------------------- set
\* evict with the comparison made strict
evictWhenOver(S, cap) ==
    IF size(S) > cap /\ S.tail # Null
    THEN remove(S, S.nodes[S.tail].key)
    ELSE S

\* First statement of set: with the cache full, remove the key of the tail.
evict(S, cap) ==
    IF size(S) >= cap /\ S.tail # Null
    THEN remove(S, S.nodes[S.tail].key)
    ELSE S

\* set that leaves the index entry of a key that has one
setKeepingIndex(S, key, value, cap, age, t) ==
    LET S1 == evict(S, cap)
        newEntry == Alloc(S1)
        index == IF S1.cache[key] # Null THEN S1.cache
                 ELSE [S1.cache EXCEPT ![key] = newEntry]
    IN IF S1.head = Null
       THEN Cache([S1.nodes EXCEPT
                      ![newEntry] = CobaltEntry(key, value, Null, age, t)],
                  index, newEntry, newEntry)
       ELSE Cache([S1.nodes EXCEPT
                      ![newEntry] = CobaltEntry(key, value, S1.head, age, t),
                      ![S1.head].prev = newEntry],
                  index, newEntry, S1.tail)

set(S, key, value, cap, age, t) ==
    LET S1 == evict(S, cap)
        newEntry == Alloc(S1)
    IN IF S1.head = Null
       THEN Cache([S1.nodes EXCEPT
                      ![newEntry] = CobaltEntry(key, value, Null, age, t)],
                  [S1.cache EXCEPT ![key] = newEntry], newEntry, newEntry)
       ELSE Cache([S1.nodes EXCEPT
                      ![newEntry] = CobaltEntry(key, value, S1.head, age, t),
                      ![S1.head].prev = newEntry],
                  [S1.cache EXCEPT ![key] = newEntry], newEntry, S1.tail)

\* set needs one free address after its eviction
setHasRoom(S, cap) == HasRoom(evict(S, cap))

\* ------------------------------------------------------------------- get
\* get that returns the value and leaves the entry where it is
getInPlace(S, key, cap, age, t, t2) ==
    LET entry == S.cache[key] IN
    IF entry = Null THEN [cache |-> S, ret |-> Absent]
    ELSE IF stale(S.nodes[entry], t)
         THEN [cache |-> remove(S, key), ret |-> Absent]
         ELSE [cache |-> S, ret |-> S.nodes[entry].value]

\* get that makes room for the entry before it looks the key up
getMakingRoom(S, key, cap, age, t, t2) ==
    LET entry == S.cache[key] IN
    IF entry = Null THEN [cache |-> evict(S, cap), ret |-> Absent]
    ELSE LET S1 == remove(S, key) IN
         IF stale(S.nodes[entry], t) THEN [cache |-> S1, ret |-> Absent]
         ELSE [cache |-> set(S1, key, S.nodes[entry].value, cap, age, t2),
               ret |-> S.nodes[entry].value]

\* The result of get: the cache afterwards and the value returned.  get
\* reads the clock twice: entry.stale reads t, and the constructor of the
\* entry that set creates reads t2, which is t or later.
get(S, key, cap, age, t, t2) ==
    LET entry == S.cache[key] IN
    IF entry = Null THEN [cache |-> S, ret |-> Absent]
    ELSE LET S1 == remove(S, key) IN
         IF stale(S.nodes[entry], t) THEN [cache |-> S1, ret |-> Absent]
         ELSE [cache |-> set(S1, key, S.nodes[entry].value, cap, age, t2),
               ret |-> S.nodes[entry].value]

\* ------------------------------------------------------------------- has
\* has that does not count the tail, the entry next in line for eviction
hasAboveTail(S, key) == S.cache[key] # Null /\ S.cache[key] # S.tail

has(S, key) == S.cache[key] # Null

\* ------------------------------------------------------------------- pop
pop(S, t) ==
    IF S.tail = Null THEN [cache |-> S, ret |-> Absent]
    ELSE LET value == S.nodes[S.tail].value
             isStale == stale(S.nodes[S.tail], t)
         IN [cache |-> remove(S, S.nodes[S.tail].key),
             ret |-> IF isStale THEN Absent ELSE value]

\* ----------------------------------------------------------------- reset
\* reset that clears the index and the head and forgets the tail
resetKeepingTail(S) == Cache(S.nodes, [k \in Keys |-> Null], Null, S.tail)

reset(S) == Cache(S.nodes, [k \in Keys |-> Null], Null, Null)

\* --------------------------------------------------------------- forEach
\* The entries forEach visits, in order.  A walk that has not ended after
\* MaxNodes + 1 steps is in a cycle and is cut there.
RECURSIVE walk(_, _, _)
walk(S, currentNode, fuel) ==
    IF currentNode = Null \/ fuel = 0 THEN <<>>
    ELSE <<currentNode>> \o walk(S, S.nodes[currentNode].next, fuel - 1)

forEach(S) == walk(S, S.head, MaxNodes + 1)

RECURSIVE walkReverse(_, _, _)
walkReverse(S, currentNode, fuel) ==
    IF currentNode = Null \/ fuel = 0 THEN <<>>
    ELSE <<currentNode>> \o walkReverse(S, S.nodes[currentNode].prev, fuel - 1)

forEachReverse(S) == walkReverse(S, S.tail, MaxNodes + 1)

keys(S) ==
    LET w == forEach(S) IN [i \in 1..Len(w) |-> S.nodes[w[i]].key]

values(S) ==
    LET w == forEach(S) IN [i \in 1..Len(w) |-> S.nodes[w[i]].value]

\* new Array(size) filled at index 0, 1, ...: the array is as long as the
\* longer of size and the walk; a slot the walk never wrote holds Null.
toArray(S) ==
    LET w == forEach(S)
        n == IF Len(w) > size(S) THEN Len(w) ELSE size(S)
    IN [i \in 1..n |-> IF i <= Len(w) THEN w[i] ELSE Null]

\* new Array(size) filled at index size-1, size-2, ...: a write at a
\* negative index does not add an element.
toArrayReverse(S) ==
    LET w == forEachReverse(S)
    IN [i \in 1..size(S) |->
          IF size(S) - i + 1 <= Len(w) THEN w[size(S) - i + 1] ELSE Null]

\* ----------------------------------------------------------- constructor
Options(kind, num, cap, stl, age) ==
    [kind |-> kind, num |-> num, capacity |-> cap, allowStale |-> stl,
     maxAge |-> age]

\* The arguments the cache is constructed with: nothing, a bare number,
\* or an options object.
NoArgs == Options("none", 0, Undef, Undef, Undef)
NumberArg(n) == Options("number", n, Undef, Undef, Undef)
ObjectArg(cap, stl, age) == Options("object", 0, cap, stl, age)

ConstructorArgs ==
    { ObjectArg(Given(2), Undef, Undef),
      ObjectArg(Given(2), Given(TRUE), Given(1)),
      ObjectArg(Given(1), Given(TRUE), Given(1)) }

\* options?.capacity and friends: only an options object has the fields.
Field(o, f) == IF o.kind = "object" THEN o[f] ELSE Undef

NewCapacity(o) == OrNum(Field(o, "capacity"), DefaultCapacity)
NewAllowStale(o) == OrBool(Field(o, "allowStale"))
NewMaxAge(o) == IF NewAllowStale(o) THEN OrNum(Field(o, "maxAge"), 0) ELSE 0

\* --------------------------------------------------------------- history
\* last: the most recent call, its arguments and what it returned.
Call(op, k, v, r) == [op |-> op, key |-> k, value |-> v, ret |-> r]

\* written[k]: the value of the most recent set(k, .), Absent before it.
\* expired: the keys a get found stale and no set has written since.
\* log: the set calls made so far, in order, in a run of set calls only.

Constructed(args) ==
    /\ options \in args
    /\ capacity = NewCapacity(options)
    /\ allowStale = NewAllowStale(options)
    /\ maxAge = NewMaxAge(options)
    /\ nodes = [n \in NodeIds |-> BlankEntry]
    /\ cache = [k \in Keys |-> Null]
    /\ head = Null
    /\ tail = Null
    /\ now = 0
    /\ last = Call("new", NoKey, Absent, Absent)
    /\ written = [k \in Keys |-> Absent]
    /\ expired = {}
    /\ log = <<>>

Init == Constructed(ConstructorArgs)

\* The cache after a call.
Becomes(S) ==
    LET T == Normalize(S) IN
    /\ nodes' = T.nodes
    /\ cache' = T.cache
    /\ head' = T.head
    /\ tail' = T.tail

Config == <<capacity, allowStale, maxAge, options>>

SetCall(k, v) ==
    /\ setHasRoom(Self, capacity)
    /\ Becomes(set(Self, k, v, capacity, maxAge, now))
    /\ last' = Call("set", k, v, Absent)
    /\ written' = [written EXCEPT ![k] = v]
    /\ expired' = expired \ {k}
    /\ UNCHANGED <<Config, now>>

\* The list may grow without bound; the model stops set where the entry it
\* adds would be one more than MaxList.
Set(k, v) ==
    /\ Cardinality(Live(evict(Self, capacity))) < MaxList
    /\ SetCall(k, v)
    /\ UNCHANGED log

\* get called when the clock reads now and returning when it reads t2.
GetAt(k, t2) ==
    LET r == get(Self, k, capacity, maxAge, now, t2) IN
    /\ Becomes(r.cache)
    /\ last' = Call("get", k, Absent, r.ret)
    /\ expired' = IF has(Self, k) /\ stale(nodes[cache[k]], now)
                  THEN expired \cup {k} ELSE expired
    /\ now' = t2
    /\ UNCHANGED <<Config, written, log>>

\* get during which the clock stands still.
Get(k) == GetAt(k, now)

\* get of a fresh entry during which the clock moves on: the entry is
\* found fresh at now and re-created at a later reading of the clock.
GetAcrossTick(k) ==
    /\ has(Self, k)
    /\ ~stale(nodes[cache[k]], now)
    /\ \E t2 \in (now + 1)..MaxTime : GetAt(k, t2)

Remove(k) ==
    /\ Becomes(remove(Self, k))
    /\ last' = Call("remove", k, Absent, Absent)
    /\ UNCHANGED <<Config, now, written, expired, log>>

Pop ==
    LET r == pop(Self, now) IN
    /\ Becomes(r.cache)
    /\ last' = Call("pop", NoKey, Absent, r.ret)
    /\ UNCHANGED <<Config, now, written, expired, log>>

Reset ==
    /\ Becomes(reset(Self))
    /\ last' = Call("reset", NoKey, Absent, Absent)
    /\ UNCHANGED <<Config, now, written, expired, log>>

\* The clock Date.now() reads moves on between calls.
Tick ==
    /\ now < MaxTime
    /\ now' = now + 1
    /\ UNCHANGED <<nodes, cache, head, tail, Config, last, written, expired,
                   log>>

Next ==
    \/ \E k \in SomeKeys, v \in Values : Set(k, v)
    \/ \E k \in SomeKeys : Get(k)
    \/ \E k \in SomeKeys : GetAcrossTick(k)
    \/ \E k \in SomeKeys : Remove(k)
    \/ Pop
    \/ Reset
    \/ Tick

Spec == Init /\ [][Next]_vars

\* A run of set calls only, on a fresh cache without a maximum age.
SetOnlyArgs ==
    { ObjectArg(Given(1), Undef, Undef),
      ObjectArg(Given(2), Undef, Undef) }

InitSetOnly == Constructed(SetOnlyArgs)

SetOnly(k, v) ==
    /\ Len(log) < MaxLog
    /\ SetCall(k, v)
    /\ log' = Append(log, Call("set", k, v, Absent))

NextSetOnly == \E k \in Keys, v \in Values : SetOnly(k, v)

SpecSetOnly == InitSetOnly /\ [][NextSetOnly]_vars

\* ---------------------------------------------------------- has, called
\* What has returns, as last.ret records it.
Shown(b) == IF b THEN "true" ELSE "false"

\* has reads the index and writes nothing.
Has(k) ==
    /\ Becomes(Self)
    /\ last' = Call("has", k, Absent, Shown(has(Self, k)))
    /\ UNCHANGED <<Config, now, written, expired, log>>

NextHas == Next \/ \E k \in SomeKeys : Has(k)

SpecHas == Init /\ [][NextHas]_vars

\* ------------------------------------------------- every call, three keys
\* All the calls that change the cache, on three keys with one value and
\* without a maximum age; the heap of MaxNodes entries is the only bound.
SetAny(k, v) ==
    /\ SetCall(k, v)
    /\ UNCHANGED log

NextOps ==
    \/ \E k \in Keys : SetAny(k, "1")
    \/ \E k \in Keys : Get(k)
    \/ \E k \in Keys : Remove(k)
    \/ Pop
    \/ Reset

SpecOps == InitSetOnly /\ [][NextOps]_vars

\* ---------------------------------------------------- constructor inputs
\* Caches constructed from every kind of argument, then a run of set calls.
AnyArgs ==
    { NoArgs, NumberArg(2), NumberArg(0),
      ObjectArg(Undef, Undef, Undef),
      ObjectArg(Given(0), Undef, Undef),
      ObjectArg(Given(-1), Undef, Undef),
      ObjectArg(Given(2), Undef, Undef) }

InitNew == Constructed(AnyArgs)

SpecNew == InitNew /\ [][NextSetOnly]_vars

\* ================================================================ claims
\* What the caller sees of the current cache.
Size == size(Self)
KeysNow == keys(Self)
Indexed == {k \in Keys : has(Self, k)}
IndexNodes == {cache[k] : k \in Indexed}
ListNodes == LET w == forEach(Self) IN {w[i] : i \in 1..Len(w)}

\* C1: size bound.  With a capacity of at least 1, after every call of a
\* run of set calls the size is at most the capacity.
C1_SizeBound == capacity >= 1 => Size <= capacity

\* C2: index/list equivalence.  After every public call the entries
\* reachable from the head along next are exactly the entries the index
\* refers to, so keys(), values() and toArray() are all size long.
C2_IndexListEquivalence ==
    /\ ListNodes = IndexNodes
    /\ Len(KeysNow) = Size
    /\ Len(values(Self)) = Size
    /\ Len(toArray(Self)) = Size

\* C3: no duplicate keys.  After any calls every key appears at most once
\* in keys().
C3_NoDuplicateKeys ==
    \A i, j \in 1..Len(KeysNow) : i # j => KeysNow[i] # KeysNow[j]

\* A step is a call of set, or of get, when last names that call
\* afterwards and the step is not a Tick: Tick moves the clock and leaves
\* last and the entries as they were, and a get during which the clock
\* moves re-creates an entry with the later date.
SetStep == last'.op = "set" /\ now' = now
GetStep == last'.op = "get" /\ (now' = now \/ nodes' # nodes)

\* C4: eviction order.  When set inserts a new key into a full cache, the
\* entry its eviction takes out of the index and out of the list is the
\* entry that was the tail before the call, and no other.
C4_EvictsTail ==
    [][(SetStep /\ ~has(Self, last'.key) /\ Size = capacity /\ tail # Null)
       => LET E == evict(Self, capacity)
              left == forEach(E)
              gone == ListNodes \ {left[i] : i \in 1..Len(left)}
              unindexed == IndexNodes \ {E.cache[x] : x \in Keys}
          IN gone = {tail} /\ unindexed = {tail}]_vars

\* C5: overwrite does not evict.  set(k, v) on an indexed key k leaves
\* every other indexed key indexed and the size as it was, also when the
\* cache is full.
C5_OverwriteKeepsOthers ==
    [][(SetStep /\ has(Self, last'.key))
       => /\ Size' = Size
          /\ \A x \in Indexed : has(Self, x)']_vars

\* C6: round trip.  set(k, v) followed at once by get(k) returns v, and
\* a get(k) that returns a value returns the value of the most recent
\* set(k, .).
C6_RoundTrip ==
    [][/\ SetStep
            => get(Cache(nodes', cache', head', tail'), last'.key,
                   capacity, maxAge, now, now).ret = last'.value
       /\ (GetStep /\ last'.ret # Absent)
            => last'.ret = written[last'.key]]_vars

\* A get returned the latest value of a key of which the list still holds
\* an older entry with another value.
C6_Witness ==
    /\ last.op = "get"
    /\ last.ret \in Values
    /\ last.ret = written[last.key]
    /\ \E n \in ListNodes :
          nodes[n].key = last.key /\ nodes[n].value # last.ret

\* C7: recency.  After set(k, v), and after a get(k) that returned a
\* value, the head entry has key k: keys()[0] is k.
C7_Recency ==
    (last.op = "set" \/ (last.op = "get" /\ last.ret # Absent))
    => /\ head # Null
       /\ nodes[head].key = last.key
       /\ KeysNow[1] = last.key

\* A get returned a value while the list holds an entry of another key.
C7_Witness ==
    /\ last.op = "get"
    /\ last.ret # Absent
    /\ nodes[head].key = last.key
    /\ \E n \in ListNodes : nodes[n].key # last.key

\* C8: distinct inserts keep the newest keys.  After set on more pairwise
\* distinct keys than the capacity C, and nothing else, the indexed keys
\* are the last C keys set, size is C, get of an earlier key returns
\* absent and get of one of the last C keys returns its value.
DistinctLog == \A i, j \in 1..Len(log) : i # j => log[i].key # log[j].key

C8_NewestKept ==
    (capacity >= 1 /\ DistinctLog /\ Len(log) > capacity)
    => /\ Indexed = {log[i].key : i \in (Len(log) - capacity + 1)..Len(log)}
       /\ Size = capacity
       /\ \A i \in 1..Len(log) :
            get(Self, log[i].key, capacity, maxAge, now, now).ret =
               IF i > Len(log) - capacity THEN log[i].value ELSE Absent

\* Three distinct keys were set on a cache of capacity 2.
C8_Witness ==
    /\ capacity = 2
    /\ DistinctLog
    /\ Len(log) = 3
    /\ Size = 2
    /\ ~has(Self, log[1].key)

\* C9: a successful get does not reset the staleness clock.  The entry of
\* k after a get(k) that returned a value has the creation timestamp and
\* the maximum age it had before the get.
C9_GetKeepsTimestamp ==
    [][(GetStep /\ last'.ret # Absent)
       => /\ nodes'[cache'[last'.key]].date = nodes[cache[last'.key]].date
          /\ nodes'[cache'[last'.key]].maxAge = nodes[cache[last'.key]].maxAge
      ]_vars

\* C10: stale miss.  With a maximum age d > 0, get(k) on an indexed key
\* returns absent exactly when now - date > d; a stale get takes k out of
\* the index; and every later get(k) with no set(k) in between returns
\* absent too.
C10_StaleMiss ==
    [][(GetStep /\ maxAge > 0)
       => LET k == last'.key IN
          /\ has(Self, k) =>
               ((last'.ret = Absent) <=> (now - nodes[cache[k]].date > maxAge))
          /\ (has(Self, k) /\ now - nodes[cache[k]].date > maxAge)
               => cache'[k] = Null
          /\ k \in expired => last'.ret = Absent]_vars

\* A get of a key that an earlier get found stale returned absent.
C10_Witness ==
    /\ last.op = "get"
    /\ last.ret = Absent
    /\ last.key \in expired
    /\ written[last.key] # Absent
    /\ ~has(Self, last.key)
    /\ maxAge > 0

\* The cache after the step.
Then == Cache(nodes', cache', head', tail')

PopStep == last'.op = "pop" /\ now' = now
RemoveStep == last'.op = "remove" /\ now' = now
HasStep == last'.op = "has" /\ now' = now

Reverse(seq) == [i \in 1..Len(seq) |-> seq[Len(seq) - i + 1]]
Without(seq, k) == SelectSeq(seq, LAMBDA x : x # k)

\* The indexed keys from the most to the least recently used: the keys of
\* the entries the index refers to, in the order of the list.
Recency(S) ==
    LET w == SelectSeq(forEach(S), LAMBDA n : S.cache[S.nodes[n].key] = n)
    IN [i \in 1..Len(w) |-> S.nodes[w[i]].key]

\* C11: pop evicts the tail.  pop() on a non-empty list takes the entry
\* that was the tail out of the list and its key out of the index, the
\* size goes down by exactly 1, and pop returns that entry's value, or
\* absent if the entry was stale.
C11_PopEvictsTail ==
    [][(PopStep /\ tail # Null)
       => LET r == pop(Self, now)
              left == forEach(r.cache)
          IN /\ tail \notin {left[i] : i \in 1..Len(left)}
             /\ ~has(r.cache, nodes[tail].key)
             /\ Size' = Size - 1
             /\ last'.ret = IF stale(nodes[tail], now) THEN Absent
                            ELSE nodes[tail].value]_vars

\* C12: remove.  remove(k) of an indexed key leaves has(k) false and
\* get(k) absent, the size one less, and every other indexed key with its
\* value and its place in the recency order; remove(k) of a key that is
\* not indexed leaves index, list, head and tail as they were.
C12_Remove ==
    [][RemoveStep
       => LET k == last'.key IN
          IF has(Self, k)
          THEN /\ cache'[k] = Null
               /\ get(Then, k, capacity, maxAge, now, now).ret = Absent
               /\ Size' = Size - 1
               /\ \A x \in Indexed \ {k} :
                     /\ cache'[x] # Null
                     /\ nodes'[cache'[x]].value = nodes[cache[x]].value
               /\ Recency(Then) = Without(Recency(Self), k)
          ELSE Then = Self]_vars

\* remove took a key that had been set out of a cache in which another
\* key stays indexed and the list holds an entry the index does not.
C12_Witness ==
    /\ last.op = "remove"
    /\ written[last.key] # Absent
    /\ ~has(Self, last.key)
    /\ Size >= 1
    /\ ListNodes # IndexNodes

\* C13: reversed array.  In a cache whose list and index agree,
\* toArrayReverse() is toArray() read backwards: the entries from the
\* tail to the head.
C13_ReverseOrder ==
    C2_IndexListEquivalence
    => toArrayReverse(Self) = Reverse(toArray(Self))

\* The capacity the caller asked for: the number passed to the
\* constructor, or the capacity field of the options passed to it.
Requested(o) == IF o.kind = "number" THEN Given(o.num) ELSE Field(o, "capacity")

\* C14: a capacity of 0 or less is rejected.  No cache exists that was
\* constructed with a capacity of 0 or less, and no cache has a capacity
\* of 0 or less.
C14_NonPositiveRejected ==
    /\ ~(Requested(options) # Undef /\ Requested(options)[1] <= 0)
    /\ capacity > 0

\* C15: capacity argument.  new Cobalt(n) with a positive number n has
\* capacity n, and keeps n keys when more than n distinct keys are set;
\* new Cobalt() has capacity 1000.
C15_NumberIsCapacity ==
    /\ (options.kind = "number" /\ options.num > 0)
         => /\ capacity = options.num
            /\ (DistinctLog /\ Len(log) > options.num) => Size = options.num
    /\ options.kind = "none" => capacity = DefaultCapacity

\* C16: has.  has(k) returns true exactly when k is in the index, also
\* when the entry of k is stale, and leaves index, list, head and tail as
\* they were.
C16_Has ==
    [][HasStep
       => /\ last'.ret = Shown(cache[last'.key] # Null)
          /\ (cache[last'.key] # Null /\ stale(nodes[cache[last'.key]], now))
               => last'.ret = "true"
          /\ Then = Self]_vars

\* has returned true for a key whose entry is stale and has not been
\* read since it was set.
C16_Witness ==
    /\ last.op = "has"
    /\ last.ret = "true"
    /\ has(Self, last.key)
    /\ stale(nodes[cache[last.key]], now)
    /\ nodes[cache[last.key]].value = written[last.key]

\* C17: misses.  get(k) of a key that is not indexed returns absent and
\* leaves index, list, head and tail as they were; pop() on the empty
\* cache returns absent and leaves it empty.
C17_Misses ==
    [][/\ (GetStep /\ ~has(Self, last'.key))
            => (last'.ret = Absent /\ Then = Self)
       /\ (PopStep /\ Size = 0 /\ head = Null /\ tail = Null)
            => (last'.ret = Absent /\ Then = Self)]_vars

\* get of a key that was never set returned absent on a full cache.
C17_Witness ==
    /\ last.op = "get"
    /\ last.ret = Absent
    /\ written[last.key] = Absent
    /\ Size = capacity

\* C18: reset.  After reset() the cache is the cache the constructor made
\* from the same options: no key indexed, no head, no tail, no entry
\* reachable, the same capacity and maximum age.
C18_Reset ==
    last.op = "reset"
    => /\ Size = 0
       /\ head = Null
       /\ tail = Null
       /\ \A k \in Keys : ~has(Self, k)
       /\ nodes = [n \in NodeIds |-> BlankEntry]
       /\ cache = [k \in Keys |-> Null]
       /\ capacity = NewCapacity(options)
       /\ allowStale = NewAllowStale(options)
       /\ maxAge = NewMaxAge(options)

\* reset emptied a cache on which keys had been set.
C18_Witness ==
    /\ last.op = "reset"
    /\ \E k, x \in Keys : k # x /\ written[k] # Absent /\ written[x] # Absent
    /\ Size = 0

\* C19: list well-formedness.  After every call head is absent exactly
\* when tail is, head has no prev, tail has no next, the walk from head
\* along next repeats no entry and ends at tail, the prev of the next of
\* an entry is that entry, and the walk from tail along prev is the walk
\* from head backwards.
C19_WellFormed ==
    LET w == forEach(Self) IN
    /\ (head = Null) <=> (tail = Null)
    /\ head # Null => nodes[head].prev = Null
    /\ tail # Null => nodes[tail].next = Null
    /\ \A i, j \in 1..Len(w) : i # j => w[i] # w[j]
    /\ w # <<>> => (w[1] = head /\ w[Len(w)] = tail)
    /\ \A i \in 1..Len(w) :
          nodes[w[i]].next # Null => nodes[nodes[w[i]].next].prev = w[i]
    /\ forEachReverse(Self) = Reverse(w)

\* remove took a key out of a list that holds three entries afterwards,
\* one of them an entry the index does not refer to.
C19_Witness ==
    /\ last.op = "remove"
    /\ written[last.key] # Absent
    /\ ~has(Self, last.key)
    /\ Len(KeysNow) = 3
    /\ ListNodes # IndexNodes

\* C20: a get that returns a value only promotes.  After get(k) returned
\* a value the indexed keys and the size are what they were, and every
\* other key has its value and its place in the recency order.
C20_GetOnlyPromotes ==
    [][(GetStep /\ last'.ret # Absent)
       => LET k == last'.key IN
          /\ {x \in Keys : cache'[x] # Null} = Indexed
          /\ Size' = Size
          /\ \A x \in Indexed \ {k} :
                /\ cache'[x] # Null
                /\ nodes'[cache'[x]].value = nodes[cache[x]].value
          /\ Without(Recency(Then), k) = Without(Recency(Self), k)]_vars

\* ---------------------------------------------------------------- drain
\* Any calls on three keys, and from the first pop on nothing but pop:
\* the caller drains the cache.  What pop does to the cache remove(k) of
\* the tail's key does too, so the states a drain starts from are all the
\* states the calls can reach.  The caller goes on calling pop: WF on Pop.
Draining == last.op = "pop"

NextDrain ==
    \/ ~Draining /\ \E k \in Keys : SetAny(k, "1")
    \/ ~Draining /\ \E k \in Keys : Get(k)
    \/ ~Draining /\ \E k \in Keys : Remove(k)
    \/ ~Draining /\ Reset
    \/ Pop

SpecDrain == InitSetOnly /\ [][NextDrain]_vars /\ WF_vars(Pop)

Empty == head = Null /\ tail = Null /\ Size = 0

\* C21: draining terminates.  Once the caller calls pop() and nothing
\* else, the cache becomes empty after finitely many calls: no head, no
\* tail, size 0.
C21_DrainTerminates == Draining ~> Empty

====
